---------------------------- MODULE Spec2Model ----------------------------
(***************************************************************************)
(* Fato ou Fake dataset extractors (rbm79/fake-news-dataset-br).           *)
(*                                                                         *)
(*   src/fato-ou-fake-scraper.py    FatoOuFakeScraper                      *)
(*   src/fato-ou-fake-api.py        FatoOuFakeAPIExtractor                 *)
(*   src/fato-ou-fake-combinado.py  ExtratorCombinado, main                *)
(*                                                                         *)
(* Text is a sequence of one-character strings, so that lower(), the `in`  *)
(* substring test and the \b word boundary of re.search are computed on    *)
(* characters.  A DataFrame is the sequence of its rows; a row is a record *)
(* whose domain is the DataFrame's column set.                             *)
(***************************************************************************)
EXTENDS Integers, Sequences, FiniteSets, TLC

VARIABLES
    titulo_in,      \* classifier bench: the title handed to _classificar_checagem
    resumo_in,      \* classifier bench: the summary handed to _classificar_checagem
    veredito,       \* classifier bench: the value returned ("" until it is called)
    link_in,        \* filter bench: the link handed to _eh_checagem_fato_ou_fake
    checagem,       \* filter bench: << >> until it is called, then <<the value returned>>
    entrada_in,     \* image bench: the entry handed to _extrair_imagem_do_feed
    imagem,         \* image bench: << >> until it is called, then <<the value returned>>
    pc,             \* position of the run
    programa,       \* the script that runs: "combinado", "scraper" or "api"
    cliente,        \* "main": the script's own main; "biblioteca": a caller of the class
    metodo,         \* ExtratorCombinado.metodo
    formato,        \* main: args.formato
    num_pages,      \* FatoOuFakeScraper.num_pages
    pagina,         \* percorrer_paginas: the next page to fetch
    buscadas,       \* listing pages whose fetch was attempted
    falhas,         \* listing pages whose fetch failed
    por_pagina,     \* what extrair_noticias_da_pagina returned for each page
    todas_noticias, \* percorrer_paginas: todas_noticias
    noticias,       \* FatoOuFakeAPIExtractor.executar_extracao: noticias
    payload,        \* the items of the API's answer, as received
    soup,           \* percorrer_paginas: the .feed-post-body nodes of the page just fetched
    feed,           \* the entries of the feed, as received
    dfs,            \* ExtratorCombinado.executar_extracao: dfs
    df_final,       \* the DataFrame executar_extracao returned
    rede,           \* the kinds of network fetch performed so far
    erro,           \* the exception that ended the run ("" if none)
    avisos,         \* the notices printed
    arquivos        \* the files written: <<class, format, number of rows>>

vars == << titulo_in, resumo_in, veredito, link_in, checagem, entrada_in, imagem, pc, programa, cliente, metodo,
           formato, num_pages, pagina, buscadas, falhas, por_pagina,
           todas_noticias, noticias, payload, soup, feed, dfs, df_final, rede,
           erro, avisos, arquivos >>

banco == << titulo_in, resumo_in, veredito, link_in, checagem, entrada_in, imagem >>

execucao == << pc, programa, cliente, metodo, formato, num_pages, pagina,
               buscadas, falhas, por_pagina, todas_noticias, noticias, payload,
               soup, feed, dfs, df_final, rede, erro, avisos, arquivos >>

----------------------------------------------------------------------------
(* Bounds *)

\* longest title of the classifier bench, in words
MaxPalavras == 3

\* largest num_pages a run is constructed with
MaxPaginas == 3

----------------------------------------------------------------------------
(* Text *)

Maiusculas ==
    << "A", "B", "C", "D", "E", "F", "G", "H", "I", "J", "K", "L", "M", "N",
       "O", "P", "Q", "R", "S", "T", "U", "V", "W", "X", "Y", "Z", "É", "Ã" >>

Minusculas ==
    << "a", "b", "c", "d", "e", "f", "g", "h", "i", "j", "k", "l", "m", "n",
       "o", "p", "q", "r", "s", "t", "u", "v", "w", "x", "y", "z", "é", "ã" >>

Digitos == { "0", "1", "2", "3", "4", "5", "6", "7", "8", "9" }

Range(s) == { s[i] : i \in DOMAIN s }

\* the lower-case and the upper-case form of each cased character
ParaMinuscula == [ c \in Range(Maiusculas) |->
                     Minusculas[CHOOSE i \in DOMAIN Maiusculas : Maiusculas[i] = c] ]

ParaMaiuscula == [ c \in Range(Minusculas) |->
                     Maiusculas[CHOOSE i \in DOMAIN Minusculas : Minusculas[i] = c] ]

\* str.lower()
Lower(s) == [ i \in DOMAIN s |->
                IF s[i] \in DOMAIN ParaMinuscula THEN ParaMinuscula[s[i]] ELSE s[i] ]

\* str.upper()
Upper(s) == [ i \in DOMAIN s |->
                IF s[i] \in DOMAIN ParaMaiuscula THEN ParaMaiuscula[s[i]] ELSE s[i] ]

\* the regular expression class \w
Letras == Range(Maiusculas) \cup Range(Minusculas)

IsWordChar(c) == c \in Letras \/ c \in Digitos \/ c = "_"

\* p occurs in s at offset i (0-based)
OccursAt(p, s, i) ==
    /\ i + Len(p) <= Len(s)
    /\ \A k \in 1..Len(p) : s[i + k] = p[k]

\* Python's `p in s`
Contains(p, s) == \E i \in 0..(Len(s) - Len(p)) : OccursAt(p, s, i)

\* re.search(r'\bw\b', s, re.IGNORECASE) for a word w of \w characters
SearchWord(w, s) ==
    LET wl == Lower(w)
        sl == Lower(s)
    IN  \E i \in 0..(Len(s) - Len(w)) :
            /\ OccursAt(wl, sl, i)
            /\ (i = 0 \/ ~IsWordChar(s[i]))
            /\ (i + Len(w) = Len(s) \/ ~IsWordChar(s[i + Len(w) + 1]))

\* ' '.join(ws)
RECURSIVE Join(_)
Join(ws) ==
    IF Len(ws) = 0 THEN << >>
    ELSE IF Len(ws) = 1 THEN ws[1]
    ELSE ws[1] \o <<" ">> \o Join(Tail(ws))

----------------------------------------------------------------------------
(* The classifier and the topic filter (the same text in both classes) *)

padroes_fake ==
    << <<"é", " ", "f", "a", "k", "e">>,
       <<"é", " ", "f", "a", "l", "s", "o">>,
       <<"n", "ã", "o", " ", "é", " ", "v", "e", "r", "d", "a", "d", "e">>,
       <<"n", "ã", "o", " ", "é", " ", "v", "e", "r", "d", "a", "d", "e", "i", "r", "o">>,
       <<"f", "a", "l", "s", "o", " ", "q", "u", "e">>,
       <<"f", "a", "k", "e", " ", "n", "e", "w", "s">>,
       <<"b", "o", "a", "t", "o">>,
       <<"m", "e", "n", "t", "i", "r", "a">>,
       <<"e", "n", "g", "a", "n", "o", "s", "o">>,
       <<"n", "ã", "o", " ", "é", " ", "r", "e", "a", "l">>,
       <<"n", "ã", "o", " ", "a", "c", "o", "n", "t", "e", "c", "e", "u">>,
       <<"n", "ã", "o", " ", "p", "r", "o", "c", "e", "d", "e">>,
       <<"n", "ã", "o", " ", "e", "x", "i", "s", "t", "e">>,
       <<"n", "ã", "o", " ", "é", " ", "f", "a", "t", "o">> >>

padroes_fato ==
    << <<"é", " ", "f", "a", "t", "o">>,
       <<"é", " ", "v", "e", "r", "d", "a", "d", "e">>,
       <<"v", "e", "r", "d", "a", "d", "e", "i", "r", "o">>,
       <<"a", "c", "o", "n", "t", "e", "c", "e", "u">>,
       <<"é", " ", "r", "e", "a", "l">>,
       <<"c", "o", "n", "f", "i", "r", "m", "a", "d", "o">>,
       <<"v", "e", "r", "i", "f", "i", "c", "a", "d", "o">>,
       <<"c", "o", "m", "p", "r", "o", "v", "a", "d", "o">>,
       <<"p", "r", "o", "c", "e", "d", "e">>,
       <<"é", " ", "v", "e", "r", "d", "a", "d", "e", "i", "r", "o">> >>

keywords ==
    << <<"f", "a", "t", "o">>,
       <<"f", "a", "k", "e">>,
       <<"f", "a", "l", "s", "o">>,
       <<"v", "e", "r", "d", "a", "d", "e">>,
       <<"é", " ", "f", "a", "l", "s", "o", " ", "q", "u", "e">>,
       <<"é", " ", "v", "e", "r", "d", "a", "d", "e", " ", "q", "u", "e">>,
       <<"c", "h", "e", "c", "a", "m", "o", "s">> >>

fato_ou_fake == <<"f", "a", "t", "o", "-", "o", "u", "-", "f", "a", "k", "e">>

palavra_fake == <<"f", "a", "k", "e">>

palavra_fato == <<"f", "a", "t", "o">>

\* some pattern of the list occurs in the text
AlgumPadrao(padroes, texto) ==
    \E j \in DOMAIN padroes : Contains(padroes[j], texto)

\* _eh_checagem_fato_ou_fake with the link compared as it is written
_eh_checagem_fato_ou_fake_sem_lower(titulo, link) ==
    LET titulo_lower == Lower(titulo)
    IN  IF Contains(fato_ou_fake, link) THEN TRUE
        ELSE \E j \in DOMAIN keywords : Contains(Lower(keywords[j]), titulo_lower)

_eh_checagem_fato_ou_fake(titulo, link) ==
    LET link_lower   == Lower(link)
        titulo_lower == Lower(titulo)
    IN  IF Contains(fato_ou_fake, link_lower) THEN TRUE
        ELSE \E j \in DOMAIN keywords : Contains(Lower(keywords[j]), titulo_lower)

\* _classificar_checagem with the FATO phrases tried before the FAKE phrases
_classificar_checagem_fato_primeiro(titulo, resumo) ==
    LET texto_titulo == Lower(titulo)
    IN  IF AlgumPadrao(padroes_fato, texto_titulo) THEN "FATO"
        ELSE IF AlgumPadrao(padroes_fake, texto_titulo) THEN "FAKE"
        ELSE IF SearchWord(palavra_fake, texto_titulo) THEN "FAKE"
        ELSE IF SearchWord(palavra_fato, texto_titulo) THEN "FATO"
        ELSE "INDETERMINADO"

\* _classificar_checagem with the whole word "fato" tried before the whole word "fake"
_classificar_checagem_palavra_fato_antes(titulo, resumo) ==
    LET texto_titulo == Lower(titulo)
    IN  IF AlgumPadrao(padroes_fake, texto_titulo) THEN "FAKE"
        ELSE IF AlgumPadrao(padroes_fato, texto_titulo) THEN "FATO"
        ELSE IF SearchWord(palavra_fato, texto_titulo) THEN "FATO"
        ELSE IF SearchWord(palavra_fake, texto_titulo) THEN "FAKE"
        ELSE "INDETERMINADO"

\* _classificar_checagem with 'fake' and 'fato' looked for anywhere in the
\* title, inside a longer word included
_classificar_checagem_sem_fronteira(titulo, resumo) ==
    LET texto_titulo == Lower(titulo)
    IN  IF AlgumPadrao(padroes_fake, texto_titulo) THEN "FAKE"
        ELSE IF AlgumPadrao(padroes_fato, texto_titulo) THEN "FATO"
        ELSE IF Contains(palavra_fake, texto_titulo) THEN "FAKE"
        ELSE IF Contains(palavra_fato, texto_titulo) THEN "FATO"
        ELSE "INDETERMINADO"

\* _classificar_checagem with the summary read after the title
_classificar_checagem_com_resumo(titulo, resumo) ==
    LET texto_titulo == Lower(titulo \o <<" ">> \o resumo)
    IN  IF AlgumPadrao(padroes_fake, texto_titulo) THEN "FAKE"
        ELSE IF AlgumPadrao(padroes_fato, texto_titulo) THEN "FATO"
        ELSE IF SearchWord(palavra_fake, texto_titulo) THEN "FAKE"
        ELSE IF SearchWord(palavra_fato, texto_titulo) THEN "FATO"
        ELSE "INDETERMINADO"

_classificar_checagem(titulo, resumo) ==
    LET texto_titulo == Lower(titulo)
    IN  IF AlgumPadrao(padroes_fake, texto_titulo) THEN "FAKE"
        ELSE IF AlgumPadrao(padroes_fato, texto_titulo) THEN "FATO"
        ELSE IF SearchWord(palavra_fake, texto_titulo) THEN "FAKE"
        ELSE IF SearchWord(palavra_fato, texto_titulo) THEN "FATO"
        ELSE "INDETERMINADO"

----------------------------------------------------------------------------
(* What the site, the API and the feed may serve *)

t_nao_e_fato == <<"N", "ã", "o", " ", "é", " ", "f", "a", "t", "o">>

t_e_verdade == <<"É", " ", "v", "e", "r", "d", "a", "d", "e">>

t_fato_ou_fake == <<" ", "F", "a", "t", "o", " ", "o", "u", " ", "F", "a", "k", "e", ":", " ">>

t_reuniao == <<"R", "e", "u", "n", "i", "ã", "o">>

l_a == <<"/", "f", "a", "t", "o", "-", "o", "u", "-", "f", "a", "k", "e", "/", "a">>

l_b == <<"/", "e", "c", "o", "n", "o", "m", "i", "a", "/", "b">>

l_c == <<"/", "F", "a", "t", "o", "-", "o", "u", "-", "F", "a", "k", "e", "/", "c">>

r_um == <<"r", "1">>

r_dois == <<"r", "2">>

r_e_fake == <<"é", " ", "f", "a", "k", "e">>

r_e_fato == <<"é", " ", "f", "a", "t", "o">>

\* the value of a key, a node or an attribute that is not there
Ausente == "<ausente>"

\* A .feed-post-body node of a listing page: whether it has a .feed-post-link,
\* that link's text and href, its other children, and what the fetch of the
\* article's own page gives ("falha": the fetch fails).
artigo_fake ==
    [ tem_link |-> TRUE, titulo |-> t_nao_e_fato, href |-> l_a, data |-> "ontem",
      tem_resumo |-> TRUE, resumo |-> r_um, src |-> "a.jpg", detalhe |-> "ok",
      conteudo |-> "texto a", tags |-> <<"saude">>, autor |-> "g1" ]

\* the same href as artigo_fake under another title; its own page does not load
artigo_fato ==
    [ tem_link |-> TRUE, titulo |-> t_e_verdade, href |-> l_a, data |-> Ausente,
      tem_resumo |-> FALSE, resumo |-> << >>, src |-> Ausente,
      detalhe |-> "falha",
      conteudo |-> "", tags |-> << >>, autor |-> "" ]

artigo_ambos ==
    [ tem_link |-> TRUE, titulo |-> t_fato_ou_fake, href |-> l_b, data |-> "hoje",
      tem_resumo |-> TRUE, resumo |-> r_e_fato, src |-> Ausente, detalhe |-> "ok",
      conteudo |-> "texto b", tags |-> << >>, autor |-> "" ]

\* not a fact check: neither its title nor its href says so
artigo_outro ==
    [ tem_link |-> TRUE, titulo |-> t_reuniao, href |-> l_b, data |-> "hoje",
      tem_resumo |-> TRUE, resumo |-> r_e_fake, src |-> Ausente, detalhe |-> "ok",
      conteudo |-> "texto c", tags |-> << >>, autor |-> "" ]

artigo_sem_link ==
    [ tem_link |-> FALSE, titulo |-> << >>, href |-> << >>, data |-> "hoje",
      tem_resumo |-> TRUE, resumo |-> << >>, src |-> Ausente, detalhe |-> "ok",
      conteudo |-> "", tags |-> << >>, autor |-> "" ]

\* soup.select('.feed-post-body') of a listing page
PaginasServidas ==
    { << >>, <<artigo_fake>>, <<artigo_ambos>>, <<artigo_outro>>, <<artigo_sem_link>>,
      <<artigo_fake, artigo_fato>>, <<artigo_fato, artigo_ambos>> }

\* An item of the API payload; its 'classification' key may be missing
item_fake ==
    [ title |-> t_nao_e_fato, url |-> l_a, summary |-> r_um,
      tem_classification |-> FALSE, classification |-> << >>,
      content |-> "texto a" ]

\* the API calls it a fact, its title says otherwise
item_dito_fato ==
    [ title |-> t_nao_e_fato, url |-> l_c, summary |-> r_dois,
      tem_classification |-> TRUE, classification |-> <<"F", "a", "t", "o">>,
      content |-> "texto c" ]

\* not a fact check, and a 'classification' that is neither verdict
item_outro ==
    [ title |-> t_reuniao, url |-> l_b, summary |-> r_e_fato,
      tem_classification |-> TRUE,
      classification |-> <<"t", "a", "l", "v", "e", "z">>, content |-> "" ]

\* no 'url'
item_sem_url ==
    [ title |-> t_e_verdade, url |-> << >>, summary |-> << >>,
      tem_classification |-> FALSE, classification |-> << >>,
      content |-> "" ]

\* The API's answer: "falha" (an exception or a status other than 200),
\* "sem_items" (a JSON object without 'items') or "ok" with data['items']
RespostasApi ==
    { [ status |-> "falha", items |-> << >> ],
      [ status |-> "sem_items", items |-> << >> ],
      [ status |-> "ok", items |-> << >> ],
      [ status |-> "ok", items |-> <<item_fake>> ],
      [ status |-> "ok", items |-> <<item_dito_fato>> ],
      [ status |-> "ok", items |-> <<item_outro>> ],
      [ status |-> "ok", items |-> <<item_sem_url>> ],
      [ status |-> "ok", items |-> <<item_fake, item_dito_fato>> ] }

\* entry.media_content: its dictionaries, with or without a 'url'
m_sem_url == [ tem_url |-> FALSE, url |-> "" ]

m_url_vazia == [ tem_url |-> TRUE, url |-> "" ]

m_jpg == [ tem_url |-> TRUE, url |-> "m.jpg" ]

\* entry.links: the 'type' of each (<< >> when it has none) and its 'href'
tipo_html == <<"t", "e", "x", "t", "/", "h", "t", "m", "l">>

tipo_png == <<"i", "m", "a", "g", "e", "/", "p", "n", "g">>

l_html == [ type |-> tipo_html, tem_href |-> TRUE, href |-> "a.html" ]

l_sem_tipo == [ type |-> << >>, tem_href |-> TRUE, href |-> "b.html" ]

l_png_sem_href == [ type |-> tipo_png, tem_href |-> FALSE, href |-> "" ]

l_png == [ type |-> tipo_png, tem_href |-> TRUE, href |-> "l.png" ]

\* entry.content: whether the dictionary has a 'value', whether that HTML has
\* an <img>, and whether the first <img> has a src
c_sem_value == [ tem_value |-> FALSE, tem_img |-> FALSE, tem_src |-> FALSE, src |-> "" ]

c_sem_img == [ tem_value |-> TRUE, tem_img |-> FALSE, tem_src |-> FALSE, src |-> "" ]

c_img_sem_src == [ tem_value |-> TRUE, tem_img |-> TRUE, tem_src |-> FALSE, src |-> "" ]

c_img == [ tem_value |-> TRUE, tem_img |-> TRUE, tem_src |-> TRUE, src |-> "c.jpg" ]

\* An entry of the feed, and what the fetch of its article gives; an
\* attribute the entry does not have is the empty list
entrada_fake ==
    [ title |-> t_nao_e_fato, link |-> l_a, tem_summary |-> TRUE, summary |-> r_dois,
      detalhe |-> "ok", conteudo |-> "texto a",
      media_content |-> <<m_jpg>>, links |-> <<l_html>>, content |-> <<c_img>> ]

entrada_fato ==
    [ title |-> t_e_verdade, link |-> l_c, tem_summary |-> FALSE, summary |-> << >>,
      detalhe |-> "falha", conteudo |-> "",
      media_content |-> << >>, links |-> <<l_html, l_png_sem_href>>, content |-> <<c_img>> ]

entrada_outra ==
    [ title |-> t_reuniao, link |-> l_b, tem_summary |-> TRUE, summary |-> r_e_fake,
      detalhe |-> "ok", conteudo |-> "texto c",
      media_content |-> << >>, links |-> << >>, content |-> << >> ]

\* the entry of the benches that do not read one
SemEntrada == [ media_content |-> << >>, links |-> << >>, content |-> << >> ]

\* feedparser.parse: "falha" (an exception or a status other than 200) or
\* "ok" with feed.entries
RespostasRss ==
    { [ status |-> "falha", entries |-> << >> ],
      [ status |-> "ok", entries |-> << >> ],
      [ status |-> "ok", entries |-> <<entrada_fake>> ],
      [ status |-> "ok", entries |-> <<entrada_fato>> ],
      [ status |-> "ok", entries |-> <<entrada_outra>> ],
      [ status |-> "ok", entries |-> <<entrada_outra, entrada_fake>> ],
      [ status |-> "ok", entries |-> <<entrada_fato, entrada_fake>> ] }

----------------------------------------------------------------------------
(* FatoOuFakeScraper *)

EhEspaco(c) == c \in { " ", "\t", "\n" }

\* str.strip()
RECURSIVE Strip(_)
Strip(s) ==
    IF Len(s) = 0 THEN s
    ELSE IF EhEspaco(s[1]) THEN Strip(Tail(s))
    ELSE IF EhEspaco(s[Len(s)]) THEN Strip(SubSeq(s, 1, Len(s) - 1))
    ELSE s

\* datetime.now().strftime(...): the clock is not modelled, every reading is "agora"
Agora == "agora"

\* the dictionary _extrair_detalhes_noticia returns for an article
_extrair_detalhes_noticia(artigo) ==
    IF artigo.detalhe = "falha"
    THEN [ conteudo |-> "", tags |-> << >>, autor |-> "" ]
    ELSE [ conteudo |-> artigo.conteudo, tags |-> artigo.tags, autor |-> artigo.autor ]

\* the loop body of extrair_noticias_da_pagina reaches noticias.append
ArtigoAceito(artigo) ==
    /\ artigo.tem_link
    /\ _eh_checagem_fato_ou_fake(Strip(artigo.titulo), artigo.href)

\* NoticiaRaspada with the summary read by the classifier as well as the title
NoticiaRaspada_com_resumo(artigo) ==
    LET titulo   == Strip(artigo.titulo)
        resumo   == IF artigo.tem_resumo THEN artigo.resumo ELSE << >>
        detalhes == _extrair_detalhes_noticia(artigo)
    IN  [ titulo          |-> titulo,
          link            |-> artigo.href,
          data_publicacao |-> IF artigo.data = Ausente
                              THEN "Data não encontrada" ELSE artigo.data,
          resumo          |-> resumo,
          classificacao   |-> _classificar_checagem(titulo \o <<" ">> \o resumo, resumo),
          imagem_url      |-> IF artigo.src = Ausente THEN "" ELSE artigo.src,
          conteudo        |-> detalhes.conteudo,
          tags            |-> detalhes.tags,
          autor           |-> detalhes.autor,
          data_extracao   |-> Agora ]

\* the dictionary the loop body of extrair_noticias_da_pagina appends
NoticiaRaspada(artigo) ==
    LET titulo   == Strip(artigo.titulo)
        resumo   == IF artigo.tem_resumo THEN artigo.resumo ELSE << >>
        detalhes == _extrair_detalhes_noticia(artigo)
    IN  [ titulo          |-> titulo,
          link            |-> artigo.href,
          data_publicacao |-> IF artigo.data = Ausente
                              THEN "Data não encontrada" ELSE artigo.data,
          resumo          |-> resumo,
          classificacao   |-> _classificar_checagem(titulo, resumo),
          imagem_url      |-> IF artigo.src = Ausente THEN "" ELSE artigo.src,
          conteudo        |-> detalhes.conteudo,
          tags            |-> detalhes.tags,
          autor           |-> detalhes.autor,
          data_extracao   |-> Agora ]

\* extrair_noticias_da_pagina with the failure of the article's own page
\* reaching the loop's `except`: the article is passed over
RECURSIVE extrair_noticias_da_pagina_sem_falhos(_)
extrair_noticias_da_pagina_sem_falhos(artigos) ==
    IF artigos = << >> THEN << >>
    ELSE IF ArtigoAceito(Head(artigos)) /\ Head(artigos).detalhe # "falha"
         THEN <<NoticiaRaspada(Head(artigos))>>
                  \o extrair_noticias_da_pagina_sem_falhos(Tail(artigos))
         ELSE extrair_noticias_da_pagina_sem_falhos(Tail(artigos))

RECURSIVE extrair_noticias_da_pagina(_)
extrair_noticias_da_pagina(artigos) ==
    IF artigos = << >> THEN << >>
    ELSE IF ArtigoAceito(Head(artigos))
         THEN <<NoticiaRaspada(Head(artigos))>> \o extrair_noticias_da_pagina(Tail(artigos))
         ELSE extrair_noticias_da_pagina(Tail(artigos))

----------------------------------------------------------------------------
(* FatoOuFakeAPIExtractor *)

\* _classificar_checagem_api with the item's own 'classification' returned
\* whatever it says ("OUTRA": a text that is neither verdict)
_classificar_checagem_api_sem_conferir(item) ==
    LET classification == Upper(item.classification)
    IN  IF item.tem_classification
        THEN IF classification = <<"F", "A", "T", "O">> THEN "FATO"
             ELSE IF classification = <<"F", "A", "K", "E">> THEN "FAKE"
             ELSE "OUTRA"
        ELSE _classificar_checagem(item.title, item.summary)

_classificar_checagem_api(item) ==
    LET classification == Upper(item.classification)
    IN  IF item.tem_classification /\ classification = <<"F", "A", "T", "O">> THEN "FATO"
        ELSE IF item.tem_classification /\ classification = <<"F", "A", "K", "E">> THEN "FAKE"
        ELSE _classificar_checagem(item.title, item.summary)

\* the dictionary tentar_api builds for an item
NoticiaApi(item) ==
    [ titulo          |-> item.title,
      link            |-> item.url,
      data_publicacao |-> "",
      resumo          |-> item.summary,
      classificacao   |-> _classificar_checagem_api(item),
      imagem_url      |-> "",
      conteudo        |-> item.content,
      tags            |-> << >>,
      autor           |-> "",
      data_extracao   |-> Agora,
      fonte           |-> "API" ]

tentar_api(resposta) ==
    IF resposta.status = "ok"
    THEN [ i \in DOMAIN resposta.items |-> NoticiaApi(resposta.items[i]) ]
    ELSE << >>

\* what _extrair_conteudo_da_noticia returns for an entry's link
_extrair_conteudo_da_noticia(entry) ==
    IF entry.detalhe = "falha" THEN "" ELSE entry.conteudo

\* str.startswith
StartsWith(s, prefixo) == OccursAt(prefixo, s, 0)

image_barra == <<"i", "m", "a", "g", "e", "/">>

\* the least of a non-empty set of indices
Primeiro(indices) == CHOOSE i \in indices : \A j \in indices : i <= j

_extrair_imagem_do_feed(entry) ==
    LET com_url   == { i \in DOMAIN entry.media_content : entry.media_content[i].tem_url }
        de_imagem == { i \in DOMAIN entry.links :
                         StartsWith(entry.links[i].type, image_barra) }
        com_src   == { i \in DOMAIN entry.content :
                         /\ entry.content[i].tem_value
                         /\ entry.content[i].tem_img
                         /\ entry.content[i].tem_src }
    IN  IF com_url # { } THEN entry.media_content[Primeiro(com_url)].url
        ELSE IF de_imagem # { }
        THEN IF entry.links[Primeiro(de_imagem)].tem_href
             THEN entry.links[Primeiro(de_imagem)].href
             ELSE ""
        ELSE IF com_src # { } THEN entry.content[Primeiro(com_src)].src
        ELSE ""

\* the dictionary tentar_rss builds for an entry
NoticiaRss(entry) ==
    LET summary == IF entry.tem_summary THEN entry.summary ELSE << >>
    IN  [ titulo          |-> entry.title,
          link            |-> entry.link,
          data_publicacao |-> "",
          resumo          |-> summary,
          classificacao   |-> _classificar_checagem(entry.title, summary),
          imagem_url      |-> _extrair_imagem_do_feed(entry),
          conteudo        |-> _extrair_conteudo_da_noticia(entry),
          tags            |-> << >>,
          autor           |-> "",
          data_extracao   |-> Agora,
          fonte           |-> "RSS" ]

RECURSIVE EntradasAceitas(_)
EntradasAceitas(entries) ==
    IF entries = << >> THEN << >>
    ELSE IF _eh_checagem_fato_ou_fake(Head(entries).title, Head(entries).link)
         THEN <<NoticiaRss(Head(entries))>> \o EntradasAceitas(Tail(entries))
         ELSE EntradasAceitas(Tail(entries))

tentar_rss(resposta) ==
    IF resposta.status = "ok" /\ resposta.entries # << >>
    THEN EntradasAceitas(resposta.entries)
    ELSE << >>

----------------------------------------------------------------------------
(* DataFrames *)

\* df.columns
Colunas(df) == IF df = << >> THEN { } ELSE DOMAIN df[1]

\* df[coluna] = valor
ComColuna(df, coluna, valor) ==
    [ i \in DOMAIN df |->
        [ c \in DOMAIN df[i] \cup {coluna} |-> IF c = coluna THEN valor ELSE df[i][c] ] ]

\* df[list(colunas)]
Projetar(df, colunas) ==
    [ i \in DOMAIN df |-> [ c \in colunas |-> df[i][c] ] ]

\* drop_duplicates with keep='last': the last row of each link is kept
RECURSIVE drop_duplicates_ultimo(_)
drop_duplicates_ultimo(df) ==
    IF df = << >> THEN << >>
    ELSE IF \E i \in 2..Len(df) : df[i].link = df[1].link
         THEN drop_duplicates_ultimo(Tail(df))
         ELSE <<df[1]>> \o drop_duplicates_ultimo(Tail(df))

\* drop_duplicates that compares a row with the row before it only
RECURSIVE drop_duplicates_vizinhos(_)
drop_duplicates_vizinhos(df) ==
    IF df = << >> THEN << >>
    ELSE LET resto == drop_duplicates_vizinhos(SubSeq(df, 1, Len(df) - 1))
             linha == df[Len(df)]
         IN  IF Len(df) > 1 /\ df[Len(df) - 1].link = linha.link
             THEN resto
             ELSE Append(resto, linha)

\* df.drop_duplicates(subset=['link']): the first row of each link is kept
RECURSIVE drop_duplicates(_)
drop_duplicates(df) ==
    IF df = << >> THEN << >>
    ELSE LET resto == drop_duplicates(SubSeq(df, 1, Len(df) - 1))
             linha == df[Len(df)]
         IN  IF \E i \in 1..(Len(df) - 1) : df[i].link = linha.link
             THEN resto
             ELSE Append(resto, linha)

\* Combinar without the drop_duplicates
Combinar_sem_drop(lista) ==
    IF Len(lista) > 1
    THEN LET colunas_comuns == Colunas(lista[1]) \cap Colunas(lista[2])
         IN  Projetar(lista[1], colunas_comuns) \o Projetar(lista[2], colunas_comuns)
    ELSE IF Len(lista) = 1 THEN lista[1]
    ELSE << >>

\* Combinar without the projection on the common columns: the rows are
\* concatenated with the columns each has
Combinar_sem_projetar(lista) ==
    IF Len(lista) > 1 THEN drop_duplicates(lista[1] \o lista[2])
    ELSE IF Len(lista) = 1 THEN lista[1]
    ELSE << >>

\* ExtratorCombinado.executar_extracao, from `if len(dfs) > 1` to its return
Combinar(lista) ==
    IF Len(lista) > 1
    THEN LET colunas_comuns == Colunas(lista[1]) \cap Colunas(lista[2])
             incompativeis  ==
                 \/ Cardinality(colunas_comuns) < Cardinality(Colunas(lista[1]))
                 \/ Cardinality(colunas_comuns) < Cardinality(Colunas(lista[2]))
             projetados     ==
                 IF incompativeis
                 THEN [ k \in DOMAIN lista |-> Projetar(lista[k], colunas_comuns) ]
                 ELSE lista
             df_combinado   == projetados[1] \o projetados[2]
         IN  drop_duplicates(df_combinado)
    ELSE IF Len(lista) = 1 THEN lista[1]
    ELSE << >>

----------------------------------------------------------------------------
(* salvar_dataset of the three classes: the files after the call, the       *)
(* exception it raised ("" if none) and the notice it printed ("" if none). *)

s_csv == <<"c", "s", "v">>

s_json == <<"j", "s", "o", "n">>

s_ambos == <<"a", "m", "b", "o", "s">>

s_xml == <<"x", "m", "l">>

s_scraping == <<"s", "c", "r", "a", "p", "i", "n", "g">>

s_api == <<"a", "p", "i">>

s_todos == <<"t", "o", "d", "o", "s">>

s_Todos == <<"T", "o", "d", "o", "s">>

s_rss == <<"r", "s", "s">>

\* from `if formato.lower() == 'csv'` to the return, the same in the three classes
Gravar(classe, df, fmt, arqs) ==
    IF Lower(fmt) = s_csv
    THEN [ arquivos |-> arqs \cup { <<classe, "csv", Len(df)>> }, erro |-> "", aviso |-> "" ]
    ELSE IF Lower(fmt) = s_json
    THEN [ arquivos |-> arqs \cup { <<classe, "json", Len(df)>> }, erro |-> "", aviso |-> "" ]
    ELSE [ arquivos |-> arqs, erro |-> "ValueError: formato", aviso |-> "" ]

salvar_dataset_combinado(df, fmt, arqs) ==
    IF df = << >>
    THEN [ arquivos |-> arqs, erro |-> "", aviso |-> "Dataset vazio. Nada para salvar." ]
    ELSE Gravar("combinado", df, fmt, arqs)

salvar_dataset_api(df, fmt, arqs) ==
    IF df = << >>
    THEN [ arquivos |-> arqs, erro |-> "", aviso |-> "Dataset vazio. Nada para salvar." ]
    ELSE Gravar("api", df, fmt, arqs)

salvar_dataset_scraper(df, fmt, arqs) == Gravar("scraper", df, fmt, arqs)

\* self.salvar_dataset of the class that runs
salvar_dataset(classe, df, fmt, arqs) ==
    IF classe = "combinado" THEN salvar_dataset_combinado(df, fmt, arqs)
    ELSE IF classe = "api" THEN salvar_dataset_api(df, fmt, arqs)
    ELSE salvar_dataset_scraper(df, fmt, arqs)

\* two calls of salvar_dataset in a row; an exception in the first ends both
SalvarDuas(classe, df, fmt1, fmt2, arqs) ==
    LET primeira == salvar_dataset(classe, df, fmt1, arqs)
    IN  IF primeira.erro # "" THEN primeira
        ELSE salvar_dataset(classe, df, fmt2, primeira.arquivos)

ComAviso(conjunto, aviso) == IF aviso = "" THEN conjunto ELSE conjunto \cup {aviso}

----------------------------------------------------------------------------
(* The run *)

\* --metodo and --formato as typed on the command line, and as passed by a caller
MetodosDados == { s_scraping, s_api, s_todos, s_Todos, s_rss }

FormatosDados == { s_csv, s_json, s_ambos, s_xml }

\* argparse: choices=['scraping', 'api', 'todos'] and choices=['csv', 'json', 'ambos']
ArgparseAceita(m, f) ==
    /\ m \in { s_scraping, s_api, s_todos }
    /\ f \in { s_csv, s_json, s_ambos }

\* __main__ of the scraper: FatoOuFakeScraper(num_pages=10)
NumPagesMain == 10

NumPagesMainLimitado == IF NumPagesMain > MaxPaginas THEN MaxPaginas ELSE NumPagesMain

SemPaginas == [ p \in 1..MaxPaginas |-> << >> ]

InitExecucao ==
    /\ pc = "inicio"
    /\ programa = ""
    /\ cliente = ""
    /\ metodo = << >>
    /\ formato = << >>
    /\ num_pages = 0
    /\ pagina = 0
    /\ buscadas = { }
    /\ falhas = { }
    /\ por_pagina = SemPaginas
    /\ todas_noticias = << >>
    /\ noticias = << >>
    /\ payload = << >>
    /\ soup = << >>
    /\ feed = << >>
    /\ dfs = << >>
    /\ df_final = << >>
    /\ rede = { }
    /\ erro = ""
    /\ avisos = { }
    /\ arquivos = { }

InitBanco ==
    /\ titulo_in = << >>
    /\ resumo_in = << >>
    /\ veredito = ""
    /\ link_in = << >>
    /\ checagem = << >>
    /\ entrada_in = SemEntrada
    /\ imagem = << >>

Init == InitBanco /\ InitExecucao

\* ConstruirCombinado without the validation of the method
ConstruirCombinado_sem_validar(n, m) ==
    /\ metodo' = Lower(m)
    /\ erro' = erro
    /\ IF Lower(m) \in { s_scraping, s_todos }
       THEN num_pages' = n /\ pagina' = 1 /\ pc' = "pagina1"
       ELSE num_pages' = num_pages /\ pagina' = pagina /\ pc' = "api"

\* ExtratorCombinado.__init__(num_paginas, m), after which executar_extracao starts
ConstruirCombinado(n, m) ==
    /\ metodo' = Lower(m)
    /\ IF Lower(m) \notin { s_scraping, s_api, s_todos }
       THEN /\ erro' = "ValueError: metodo"
            /\ pc' = "fim"
            /\ num_pages' = num_pages
            /\ pagina' = pagina
       ELSE /\ erro' = erro
            /\ IF Lower(m) \in { s_scraping, s_todos }
               THEN num_pages' = n /\ pagina' = 1 /\ pc' = "pagina1"
               ELSE num_pages' = num_pages /\ pagina' = pagina /\ pc' = "api"

\* main() of fato-ou-fake-combinado.py up to the call of executar_extracao
MainCombinado(n, m, f) ==
    /\ pc = "inicio"
    /\ programa' = "combinado"
    /\ cliente' = "main"
    /\ IF ArgparseAceita(m, f)
       THEN formato' = f /\ ConstruirCombinado(n, m)
       ELSE /\ erro' = "SystemExit: argparse"
            /\ pc' = "fim"
            /\ UNCHANGED << formato, metodo, num_pages, pagina >>
    /\ UNCHANGED << buscadas, falhas, por_pagina, todas_noticias, noticias, payload, soup, feed, dfs,
                    df_final, rede, avisos, arquivos, banco >>

\* a caller constructs ExtratorCombinado and calls executar_extracao
NovoCombinado(n, m) ==
    /\ pc = "inicio"
    /\ programa' = "combinado"
    /\ cliente' = "biblioteca"
    /\ ConstruirCombinado(n, m)
    /\ UNCHANGED << formato, buscadas, falhas, por_pagina, todas_noticias, noticias, payload, soup, feed,
                    dfs, df_final, rede, avisos, arquivos, banco >>

\* __main__ of fato-ou-fake-scraper.py, or a caller: FatoOuFakeScraper(n).executar_extracao()
NovoScraper(c, n) ==
    /\ pc = "inicio"
    /\ programa' = "scraper"
    /\ cliente' = c
    /\ c = "main" => n = NumPagesMainLimitado
    /\ num_pages' = n
    /\ pagina' = 1
    /\ pc' = "pagina1"
    /\ UNCHANGED << metodo, formato, buscadas, falhas, por_pagina, todas_noticias,
                    noticias, payload, soup, feed, dfs, df_final, rede, erro, avisos, arquivos, banco >>

\* __main__ of fato-ou-fake-api.py, or a caller: FatoOuFakeAPIExtractor().executar_extracao()
NovoApi(c) ==
    /\ pc = "inicio"
    /\ programa' = "api"
    /\ cliente' = c
    /\ pc' = "api"
    /\ UNCHANGED << metodo, formato, num_pages, pagina, buscadas, falhas, por_pagina,
                    todas_noticias, noticias, payload, soup, feed, dfs, df_final, rede, erro, avisos,
                    arquivos, banco >>

\* One listing page of percorrer_paginas: extrair_pagina(url) and, when it
\* gave a soup, extrair_noticias_da_pagina(soup) and todas_noticias.extend
BuscarPagina(p, ok, artigos) ==
    LET noticias_pagina == IF ok THEN extrair_noticias_da_pagina(artigos) ELSE << >>
    IN  /\ ~ok => artigos = << >>
        /\ buscadas' = buscadas \cup {p}
        /\ falhas' = IF ok THEN falhas ELSE falhas \cup {p}
        /\ por_pagina' = [ por_pagina EXCEPT ![p] = noticias_pagina ]
        /\ todas_noticias' = todas_noticias \o noticias_pagina
        /\ soup' = artigos
        /\ rede' = rede \cup {"pagina"}
                        \cup IF noticias_pagina # << >> THEN {"detalhe"} ELSE { }

\* PrimeiraPagina ending percorrer_paginas when the fetch fails
PrimeiraPagina_para(ok, artigos) ==
    /\ pc = "pagina1"
    /\ BuscarPagina(1, ok, artigos)
    /\ pagina' = 2
    /\ pc' = IF ok /\ 2 <= num_pages THEN "paginas" ELSE "fim_paginas"
    /\ UNCHANGED << programa, cliente, metodo, formato, num_pages, noticias, payload, feed,
                    dfs, df_final, erro, avisos, arquivos, banco >>

\* percorrer_paginas: the first page; a failed fetch is passed over
PrimeiraPagina(ok, artigos) ==
    /\ pc = "pagina1"
    /\ BuscarPagina(1, ok, artigos)
    /\ pagina' = 2
    /\ pc' = IF 2 <= num_pages THEN "paginas" ELSE "fim_paginas"
    /\ UNCHANGED << programa, cliente, metodo, formato, num_pages, noticias, payload, feed, dfs,
                    df_final, erro, avisos, arquivos, banco >>

\* percorrer_paginas: one turn of `for i in range(2, self.num_pages + 1)`;
\* a failed fetch breaks the loop
PaginaAdicional(ok, artigos) ==
    /\ pc = "paginas"
    /\ pagina <= num_pages
    /\ BuscarPagina(pagina, ok, artigos)
    /\ IF ok
       THEN /\ pagina' = pagina + 1
            /\ pc' = IF pagina + 1 <= num_pages THEN "paginas" ELSE "fim_paginas"
            /\ avisos' = avisos
       ELSE /\ pagina' = pagina
            /\ pc' = "fim_paginas"
            /\ avisos' = avisos \cup {"Falha ao acessar página"}
    /\ UNCHANGED << programa, cliente, metodo, formato, num_pages, noticias, payload, feed, dfs,
                    df_final, erro, arquivos, banco >>

\* FatoOuFakeScraper.executar_extracao returns pd.DataFrame(self.dataset); in
\* ExtratorCombinado.executar_extracao a non-empty one gets its
\* 'metodo_extracao' column and joins dfs
FimScraper ==
    /\ pc = "fim_paginas"
    /\ soup' = << >>
    /\ IF programa = "scraper"
       THEN /\ df_final' = todas_noticias
            /\ pc' = "extraido"
            /\ dfs' = dfs
       ELSE /\ df_final' = df_final
            /\ pc' = IF metodo = s_todos THEN "api" ELSE "combinar"
            /\ dfs' = IF todas_noticias # << >>
                      THEN Append(dfs, ComColuna(todas_noticias, "metodo_extracao", "scraping"))
                      ELSE dfs
    /\ UNCHANGED << programa, cliente, metodo, formato, num_pages, pagina, buscadas,
                    falhas, por_pagina, todas_noticias, noticias, payload, feed, rede, erro,
                    avisos, arquivos, banco >>

\* TentarApi without `if not noticias`: the feed is read whatever the API gave
TentarApi_sempre_rss(resposta) ==
    /\ pc = "api"
    /\ noticias' = tentar_api(resposta)
    /\ payload' = resposta.items
    /\ rede' = rede \cup {"api"}
    /\ pc' = "rss"
    /\ UNCHANGED << soup, feed, programa, cliente, metodo, formato, num_pages, pagina, buscadas,
                    falhas, por_pagina, todas_noticias, dfs, df_final, erro,
                    avisos, arquivos, banco >>

\* FatoOuFakeAPIExtractor.executar_extracao: noticias = self.tentar_api()
TentarApi(resposta) ==
    /\ pc = "api"
    /\ noticias' = tentar_api(resposta)
    /\ payload' = resposta.items
    /\ rede' = rede \cup {"api"}
    /\ pc' = IF tentar_api(resposta) = << >> THEN "rss" ELSE "fim_api"
    /\ UNCHANGED << soup, feed, programa, cliente, metodo, formato, num_pages, pagina, buscadas,
                    falhas, por_pagina, todas_noticias, dfs, df_final, erro,
                    avisos, arquivos, banco >>

\* FatoOuFakeAPIExtractor.executar_extracao: if not noticias: noticias = self.tentar_rss()
TentarRss(resposta) ==
    /\ pc = "rss"
    /\ noticias' = tentar_rss(resposta)
    /\ payload' = payload
    /\ feed' = resposta.entries
    /\ rede' = rede \cup {"rss"}
                    \cup IF tentar_rss(resposta) # << >> THEN {"conteudo"} ELSE { }
    /\ pc' = "fim_api"
    /\ UNCHANGED << soup, programa, cliente, metodo, formato, num_pages, pagina, buscadas,
                    falhas, por_pagina, todas_noticias, dfs, df_final, erro,
                    avisos, arquivos, banco >>

\* FatoOuFakeAPIExtractor.executar_extracao returns its DataFrame; in
\* ExtratorCombinado.executar_extracao a non-empty one gets its
\* 'metodo_extracao' column and joins dfs
FimApi ==
    /\ pc = "fim_api"
    /\ avisos' = IF noticias = << >>
                 THEN avisos \cup {"Não foi possível extrair dados via API ou RSS."}
                 ELSE avisos
    /\ IF programa = "api"
       THEN /\ df_final' = noticias
            /\ pc' = "extraido"
            /\ dfs' = dfs
       ELSE /\ df_final' = df_final
            /\ pc' = "combinar"
            /\ dfs' = IF noticias # << >>
                      THEN Append(dfs, ComColuna(noticias, "metodo_extracao", "api/rss"))
                      ELSE dfs
    /\ UNCHANGED << programa, cliente, metodo, formato, num_pages, pagina, buscadas,
                    falhas, por_pagina, todas_noticias, noticias, payload, soup, feed, rede, erro,
                    arquivos, banco >>

\* ExtratorCombinado.executar_extracao: the combination of dfs and the return
CombinarDfs ==
    /\ pc = "combinar"
    /\ df_final' = Combinar(dfs)
    /\ avisos' = IF Len(dfs) = 0
                 THEN avisos \cup {"Nenhum dado extraído por qualquer método."}
                 ELSE avisos
    /\ pc' = "extraido"
    /\ UNCHANGED << programa, cliente, metodo, formato, num_pages, pagina, buscadas,
                    falhas, por_pagina, todas_noticias, noticias, payload, soup, feed, dfs, rede, erro,
                    arquivos, banco >>

\* the result of a salvar_dataset call, or of a sequence of them, takes effect
Efeito(r) ==
    /\ arquivos' = r.arquivos
    /\ erro' = r.erro
    /\ avisos' = ComAviso(avisos, r.aviso)

\* main() of fato-ou-fake-combinado.py after executar_extracao
MainCombinadoFim ==
    /\ pc = "extraido" /\ programa = "combinado" /\ cliente = "main"
    /\ pc' = "fim"
    /\ IF df_final # << >>
       THEN Efeito(IF formato = s_ambos
                   THEN SalvarDuas("combinado", df_final, s_csv, s_json, arquivos)
                   ELSE salvar_dataset_combinado(df_final, formato, arquivos))
       ELSE UNCHANGED << arquivos, erro, avisos >>
    /\ UNCHANGED << programa, cliente, metodo, formato, num_pages, pagina, buscadas,
                    falhas, por_pagina, todas_noticias, noticias, payload, soup, feed, dfs, df_final,
                    rede, banco >>

\* __main__ of fato-ou-fake-scraper.py after executar_extracao: the statistics
\* read df_noticias['classificacao'], a column an empty DataFrame does not have
MainScraperFim ==
    /\ pc = "extraido" /\ programa = "scraper" /\ cliente = "main"
    /\ pc' = "fim"
    /\ IF "classificacao" \notin Colunas(df_final)
       THEN /\ erro' = "KeyError: classificacao"
            /\ UNCHANGED << arquivos, avisos >>
       ELSE Efeito(SalvarDuas("scraper", df_final, s_csv, s_json, arquivos))
    /\ UNCHANGED << programa, cliente, metodo, formato, num_pages, pagina, buscadas,
                    falhas, por_pagina, todas_noticias, noticias, payload, soup, feed, dfs, df_final,
                    rede, banco >>

\* __main__ of fato-ou-fake-api.py after executar_extracao
MainApiFim ==
    /\ pc = "extraido" /\ programa = "api" /\ cliente = "main"
    /\ pc' = "fim"
    /\ IF df_final # << >>
       THEN Efeito(SalvarDuas("api", df_final, s_csv, s_json, arquivos))
       ELSE /\ avisos' = avisos \cup {"Nenhum dado extraído para salvar."}
            /\ UNCHANGED << arquivos, erro >>
    /\ UNCHANGED << programa, cliente, metodo, formato, num_pages, pagina, buscadas,
                    falhas, por_pagina, todas_noticias, noticias, payload, soup, feed, dfs, df_final,
                    rede, banco >>

\* a caller's salvar_dataset(df, f) on the DataFrame executar_extracao returned
ChamarSalvar(r) ==
    /\ pc = "extraido" /\ cliente = "biblioteca"
    /\ Efeito(r)
    /\ pc' = IF r.erro # "" THEN "fim" ELSE pc
    /\ UNCHANGED << programa, cliente, metodo, formato, num_pages, pagina, buscadas,
                    falhas, por_pagina, todas_noticias, noticias, payload, soup, feed, dfs, df_final,
                    rede, banco >>

SalvarCombinado(f) ==
    /\ programa = "combinado"
    /\ ChamarSalvar(salvar_dataset_combinado(df_final, f, arquivos))

SalvarScraper(f) ==
    /\ programa = "scraper"
    /\ ChamarSalvar(salvar_dataset_scraper(df_final, f, arquivos))

SalvarApi(f) ==
    /\ programa = "api"
    /\ ChamarSalvar(salvar_dataset_api(df_final, f, arquivos))

Clientes == { "main", "biblioteca" }

Respostas == { [ ok |-> FALSE, artigos |-> << >> ] }
                 \cup { [ ok |-> TRUE, artigos |-> a ] : a \in PaginasServidas }

Next ==
    \/ \E n \in 1..MaxPaginas, m \in MetodosDados, f \in FormatosDados : MainCombinado(n, m, f)
    \/ \E n \in 1..MaxPaginas, m \in MetodosDados : NovoCombinado(n, m)
    \/ \E c \in Clientes, n \in 1..MaxPaginas : NovoScraper(c, n)
    \/ \E c \in Clientes : NovoApi(c)
    \/ \E r \in Respostas : PrimeiraPagina(r.ok, r.artigos)
    \/ \E r \in Respostas : PaginaAdicional(r.ok, r.artigos)
    \/ FimScraper
    \/ \E resposta \in RespostasApi : TentarApi(resposta)
    \/ \E resposta \in RespostasRss : TentarRss(resposta)
    \/ FimApi
    \/ CombinarDfs
    \/ MainCombinadoFim
    \/ MainScraperFim
    \/ MainApiFim
    \/ \E f \in FormatosDados : SalvarCombinado(f)
    \/ \E f \in FormatosDados : SalvarScraper(f)
    \/ \E f \in FormatosDados : SalvarApi(f)

Spec == Init /\ [][Next]_vars

----------------------------------------------------------------------------
(* The classifier on its own: every title of up to MaxPalavras words *)

Vocabulario ==
    { <<"n", "ã", "o">>, <<"é">>, <<"É">>, <<"f", "a", "t", "o">>,
      <<"F", "a", "k", "e", ":">>, <<"f", "a", "t", "o", "s">>,
      <<"v", "e", "r", "d", "a", "d", "e">>, <<"o", "u">> }

Frases == UNION { [ 1..n -> Vocabulario ] : n \in 0..MaxPalavras }

TitulosBanco == { Join(ws) : ws \in Frases }

ResumosBanco == { << >>, r_e_fake, r_e_fato }

InitClassificar ==
    /\ titulo_in \in TitulosBanco
    /\ resumo_in \in ResumosBanco
    /\ veredito = ""
    /\ link_in = << >>
    /\ checagem = << >>
    /\ entrada_in = SemEntrada
    /\ imagem = << >>
    /\ InitExecucao

Classificar ==
    /\ veredito = ""
    /\ veredito' = _classificar_checagem(titulo_in, resumo_in)
    /\ UNCHANGED << titulo_in, resumo_in, link_in, checagem, entrada_in, imagem, execucao >>

NextClassificar == Classificar

SpecClassificar == InitClassificar /\ [][NextClassificar]_vars

----------------------------------------------------------------------------
(* The topic filter on its own: every title of up to MaxPalavras words with *)
(* every link of LinksBanco                                                  *)

LinksBanco == { << >>, l_a, l_b, l_c }

InitFiltrar ==
    /\ titulo_in \in TitulosBanco
    /\ link_in \in LinksBanco
    /\ resumo_in = << >>
    /\ veredito = ""
    /\ checagem = << >>
    /\ entrada_in = SemEntrada
    /\ imagem = << >>
    /\ InitExecucao

Filtrar ==
    /\ checagem = << >>
    /\ checagem' = << _eh_checagem_fato_ou_fake(titulo_in, link_in) >>
    /\ UNCHANGED << titulo_in, resumo_in, veredito, link_in, entrada_in, imagem, execucao >>

NextFiltrar == Filtrar

SpecFiltrar == InitFiltrar /\ [][NextFiltrar]_vars

----------------------------------------------------------------------------
(* _extrair_imagem_do_feed on its own: every entry made of the lists below *)

MediasBanco ==
    { << >>, <<m_sem_url>>, <<m_url_vazia>>, <<m_jpg>>, <<m_sem_url, m_jpg>>,
      <<m_url_vazia, m_jpg>> }

LinksFeedBanco ==
    { << >>, <<l_html>>, <<l_sem_tipo>>, <<l_png_sem_href>>, <<l_png>>,
      <<l_html, l_png>>, <<l_png_sem_href, l_png>> }

ConteudosBanco ==
    { << >>, <<c_sem_value>>, <<c_sem_img>>, <<c_img_sem_src>>, <<c_img>>,
      <<c_img_sem_src, c_img>> }

EntradasBanco ==
    { [ media_content |-> m, links |-> l, content |-> c ] :
        m \in MediasBanco, l \in LinksFeedBanco, c \in ConteudosBanco }

InitImagem ==
    /\ entrada_in \in EntradasBanco
    /\ imagem = << >>
    /\ titulo_in = << >>
    /\ resumo_in = << >>
    /\ veredito = ""
    /\ link_in = << >>
    /\ checagem = << >>
    /\ InitExecucao

ExtrairImagem ==
    /\ imagem = << >>
    /\ imagem' = << _extrair_imagem_do_feed(entrada_in) >>
    /\ UNCHANGED << titulo_in, resumo_in, veredito, link_in, checagem, entrada_in, execucao >>

NextImagem == ExtrairImagem

SpecImagem == InitImagem /\ [][NextImagem]_vars

----------------------------------------------------------------------------
(* Properties of the classifier, under SpecClassificar *)

nao_e_fato == <<"n", "ã", "o", " ", "é", " ", "f", "a", "t", "o">>

Classificado == veredito # ""

TituloMinusculo == Lower(titulo_in)

\* the title has none of the listed FAKE or FATO phrases
SemPadroes ==
    /\ ~AlgumPadrao(padroes_fake, TituloMinusculo)
    /\ ~AlgumPadrao(padroes_fato, TituloMinusculo)

\* C1: a title whose lower-cased text contains a FAKE phrase ("não é fato" in
\* particular) is classified FAKE, also when it contains a FATO phrase or the
\* whole word "fato".
C1_FraseFakePrimeiro ==
    (Classificado /\ AlgumPadrao(padroes_fake, TituloMinusculo)) => veredito = "FAKE"

\* a classified title with "não é fato", which has the FATO phrase "é fato" and
\* the whole word "fato" in it
C1_Testemunha ==
    /\ Classificado
    /\ Contains(nao_e_fato, TituloMinusculo)
    /\ AlgumPadrao(padroes_fato, TituloMinusculo)
    /\ SearchWord(palavra_fato, TituloMinusculo)
    /\ veredito = "FAKE"

\* C2 as stated: with no listed phrase in the title, the whole word "fake" gives
\* FAKE and the whole word "fato" gives FATO, for every such title.
C2_Original ==
    (Classificado /\ SemPadroes) =>
        /\ SearchWord(palavra_fake, TituloMinusculo) => veredito = "FAKE"
        /\ SearchWord(palavra_fato, TituloMinusculo) => veredito = "FATO"

\* C2 as amended: with no listed phrase in the title, the whole word "fake"
\* gives FAKE, and the whole word "fato" gives FATO when the title does not
\* also have the whole word "fake".
C2_PalavraIsolada ==
    (Classificado /\ SemPadroes) =>
        /\ SearchWord(palavra_fake, TituloMinusculo) => veredito = "FAKE"
        /\ (SearchWord(palavra_fato, TituloMinusculo)
              /\ ~SearchWord(palavra_fake, TituloMinusculo)) => veredito = "FATO"

\* a classified title with both whole words and no listed phrase
C2_Testemunha ==
    /\ Classificado
    /\ SemPadroes
    /\ SearchWord(palavra_fake, TituloMinusculo)
    /\ SearchWord(palavra_fato, TituloMinusculo)
    /\ veredito = "FAKE"

\* C15: a title with none of the listed FAKE phrases, none of the listed FATO
\* phrases and neither the whole word "fake" nor the whole word "fato" is
\* classified INDETERMINADO.
C15_SemIndicio ==
    (Classificado /\ SemPadroes
       /\ ~SearchWord(palavra_fake, TituloMinusculo)
       /\ ~SearchWord(palavra_fato, TituloMinusculo)) => veredito = "INDETERMINADO"

fatos == <<"f", "a", "t", "o", "s">>

\* a classified title with "fatos" in it, which has "fato" inside a longer
\* word only, and no listed phrase
C15_Testemunha ==
    /\ Classificado
    /\ SemPadroes
    /\ Contains(fatos, TituloMinusculo)
    /\ ~SearchWord(palavra_fato, TituloMinusculo)
    /\ ~SearchWord(palavra_fake, TituloMinusculo)
    /\ veredito = "INDETERMINADO"

----------------------------------------------------------------------------
(* Properties of the topic filter, under SpecFiltrar *)

Filtrado == checagem # << >>

LinkDeChecagem == Contains(fato_ou_fake, Lower(link_in))

\* the lower-cased title has one of the seven keywords
TituloComKeyword ==
    \E j \in DOMAIN keywords : Contains(keywords[j], Lower(titulo_in))

\* C11: _eh_checagem_fato_ou_fake is true whenever the lower-cased link
\* contains "fato-ou-fake", whatever the title, and false whenever the link
\* lacks it and the lower-cased title contains none of the seven keywords,
\* both inputs empty included.
C11_FiltroPorLinkOuTitulo ==
    Filtrado =>
        /\ LinkDeChecagem => checagem[1] = TRUE
        /\ (~LinkDeChecagem /\ ~TituloComKeyword) => checagem[1] = FALSE

\* the filter has accepted a title without keyword for its link, written
\* "/Fato-ou-Fake/c"
C11_Testemunha ==
    /\ Filtrado
    /\ link_in = l_c
    /\ titulo_in # << >>
    /\ ~TituloComKeyword
    /\ checagem[1] = TRUE

\* the filter has refused the empty title with the empty link
C11_TestemunhaVazio ==
    /\ Filtrado
    /\ link_in = << >>
    /\ titulo_in = << >>
    /\ checagem[1] = FALSE

----------------------------------------------------------------------------
(* Properties of _extrair_imagem_do_feed, under SpecImagem *)

Extraida == imagem # << >>

TemUrl(media) == media.tem_url

EhLinkDeImagem(link) == StartsWith(link.type, image_barra)

TemImgComSrc(content) == content.tem_value /\ content.tem_img /\ content.tem_src

\* the URLs the three sources of an entry offer, in the order media_content,
\* image-typed links, first <img> of each embedded content; "" where a
\* source's element has no URL to give
Candidatas(entry) ==
    LET medias    == SelectSeq(entry.media_content, TemUrl)
        links     == SelectSeq(entry.links, EhLinkDeImagem)
        conteudos == SelectSeq(entry.content, TemImgComSrc)
    IN  [ i \in DOMAIN medias |-> medias[i].url ]
          \o [ i \in DOMAIN links |-> IF links[i].tem_href THEN links[i].href ELSE "" ]
          \o [ i \in DOMAIN conteudos |-> conteudos[i].src ]

\* the first URL of the sequence that is not empty, "" if there is none
PrimeiraNaoVazia(urls) ==
    LET cheias == { i \in DOMAIN urls : urls[i] # "" }
    IN  IF cheias = { } THEN "" ELSE urls[Primeiro(cheias)]

\* C18: _extrair_imagem_do_feed returns the first non-empty URL that
\* media_content, then the image-typed links, then the first <img> of the
\* embedded content offer, and "" only when none of them offers a non-empty
\* URL: an image-typed link without href does not keep the <img> of the
\* embedded content from being returned.
C18_PrimeiraUrlNaoVazia ==
    Extraida => imagem[1] = PrimeiraNaoVazia(Candidatas(entrada_in))

----------------------------------------------------------------------------
(* Properties of the run, under Spec *)

\* the title-only classifier gives the record's classificacao
ClassificadoPeloTitulo(r) ==
    r.classificacao = _classificar_checagem(r.titulo, r.resumo)

\* the item's own 'classification' is one of the two verdicts once upper-cased
ItemTrazVeredito(item) ==
    /\ item.tem_classification
    /\ Upper(item.classification) \in { <<"F", "A", "T", "O">>, <<"F", "A", "K", "E">> }

VereditoDoItem(item) ==
    IF Upper(item.classification) = <<"F", "A", "T", "O">> THEN "FATO" ELSE "FAKE"

C4_TodosFiltrados ==
    /\ \A i \in DOMAIN todas_noticias :
          _eh_checagem_fato_ou_fake(todas_noticias[i].titulo, todas_noticias[i].link)
    /\ \A i \in DOMAIN noticias :
          _eh_checagem_fato_ou_fake(noticias[i].titulo, noticias[i].link)

\* no two rows of the DataFrame have the same link
SemLinkRepetido(df) ==
    \A i, j \in DOMAIN df : i # j => df[i].link # df[j].link

Links(df) == { df[i].link : i \in DOMAIN df }

RetornouCombinado == pc = "extraido" /\ programa = "combinado"

\* C5 as stated: no dataset ExtratorCombinado.executar_extracao returns has
\* two records with the same link, one adapter's list returned alone included.
C5_Original == RetornouCombinado => SemLinkRepetido(df_final)

\* C5 as amended: when both the scraping and the API/RSS adapter produced
\* records the returned dataset has no two records with the same link; when
\* one adapter alone did, its list is returned as it is.
C5_SemRepetidosNaCombinacao ==
    RetornouCombinado =>
        /\ Len(dfs) > 1 => SemLinkRepetido(df_final)
        /\ Len(dfs) = 1 => df_final = dfs[1]

\* both adapters produced records and the combination dropped some
C5_Testemunha ==
    /\ RetornouCombinado
    /\ Len(dfs) = 2
    /\ Len(df_final) < Len(dfs[1]) + Len(dfs[2])

\* the first row of df with the link
PrimeiraCom(df, link) ==
    df[CHOOSE i \in DOMAIN df :
          /\ df[i].link = link
          /\ \A k \in 1..(i - 1) : df[k].link # link]

\* C6: when both datasets are non-empty and both have a record with a link,
\* the result has exactly one record with that link, and its field values are
\* those of the scraping dataset's record.
C6_PrimeiroPrevalece ==
    (RetornouCombinado /\ Len(dfs) = 2) =>
        \A link \in Links(dfs[1]) \cap Links(dfs[2]) :
            /\ Cardinality({ k \in DOMAIN df_final : df_final[k].link = link }) = 1
            /\ \A k \in DOMAIN df_final :
                  df_final[k].link = link =>
                      \A c \in DOMAIN df_final[k] :
                          /\ c \in DOMAIN PrimeiraCom(dfs[1], link)
                          /\ df_final[k][c] = PrimeiraCom(dfs[1], link)[c]

\* both datasets have a record with the same link and another title
C6_Testemunha ==
    /\ RetornouCombinado
    /\ Len(dfs) = 2
    /\ \E i \in DOMAIN dfs[1], j \in DOMAIN dfs[2] :
          /\ dfs[1][i].link = dfs[2][j].link
          /\ dfs[1][i].titulo # dfs[2][j].titulo
          /\ \E k \in DOMAIN df_final : df_final[k].titulo = dfs[1][i].titulo

\* C7 as stated: two copies of a non-empty dataset D combine into as many
\* records as D has.
C7_Original ==
    pc = "combinar" =>
        \A k \in DOMAIN dfs : Len(Combinar(<<dfs[k], dfs[k]>>)) = Len(dfs[k])

\* C7 as amended: two copies of a non-empty dataset D combine into as many
\* records as D has distinct links, which is the number of records of D when
\* no link repeats in D.
C7_UmPorLink ==
    pc = "combinar" =>
        \A k \in DOMAIN dfs :
            /\ Len(Combinar(<<dfs[k], dfs[k]>>)) = Cardinality(Links(dfs[k]))
            /\ SemLinkRepetido(dfs[k]) =>
                  Len(Combinar(<<dfs[k], dfs[k]>>)) = Len(dfs[k])

\* an adapter's dataset with several records and a repeated link
C7_Testemunha ==
    /\ pc = "combinar"
    /\ \E k \in DOMAIN dfs : Len(dfs[k]) > 1 /\ ~SemLinkRepetido(dfs[k])

\* the records of pages 1..n, in page order
RECURSIVE ConcatPaginas(_)
ConcatPaginas(n) == IF n = 0 THEN << >> ELSE ConcatPaginas(n - 1) \o por_pagina[n]

\* C8 as stated: whichever listing page fails, percorrer_paginas still fetches
\* every page up to num_pages.
C8_Original == pc = "fim_paginas" => buscadas = 1..num_pages

\* C8 as amended: a failed fetch of page 1 costs that page's records only and
\* the pages from 2 on are fetched; a failed fetch of a page i >= 2 ends the
\* loop, so no page after i is fetched and the result holds the records of
\* the pages before i.
C8_FalhaDePagina ==
    pc = "fim_paginas" =>
        /\ 1 \in buscadas
        /\ falhas \cap (2..num_pages) = { } => buscadas = 1..num_pages
        /\ \A i \in falhas : i >= 2 => buscadas = 1..i
        /\ \A p \in 1..num_pages : (p \in falhas \/ p \notin buscadas) => por_pagina[p] = << >>
        /\ todas_noticias = ConcatPaginas(num_pages)

\* page 1 failed and the records of page 2 are the result
C8_Testemunha ==
    /\ pc = "fim_paginas"
    /\ 1 \in falhas
    /\ 2 \in buscadas \ falhas
    /\ por_pagina[2] # << >>
    /\ todas_noticias = por_pagina[2]

ErrosDeMetodo == { "ValueError: metodo", "SystemExit: argparse" }

\* C9 as stated: no fetch precedes the error of an invalid method or an
\* invalid output format.
C9_Original ==
    erro \in ErrosDeMetodo \cup { "ValueError: formato" } => rede = { }

\* C9 as amended: an invalid method, and on the command line an invalid
\* format, end the run before any fetch and no run fetches with an invalid
\* method; an invalid format passed to salvar_dataset raises only there,
\* after the fetches of the extraction.
C9_ErroDeConfiguracao ==
    /\ erro \in ErrosDeMetodo => rede = { }
    /\ (programa = "combinado" /\ rede # { }) => metodo \in { s_scraping, s_api, s_todos }
    /\ erro = "ValueError: formato" => (cliente = "biblioteca" /\ pc = "fim" /\ rede # { })

\* the constructor has refused a method before any fetch
C9_Testemunha ==
    /\ erro = "ValueError: metodo"
    /\ metodo = s_rss
    /\ pc = "fim"
    /\ rede = { }

NadaExtraido ==
    { "Nenhum dado extraído por qualquer método.",
      "Nenhum dado extraído para salvar.",
      "Não foi possível extrair dados via API ou RSS." }

\* C10: a run of a script in which every adapter yields no record ends with a
\* nothing-extracted notice and no file, and no salvar_dataset writes a file
\* for an empty dataset.
C10_NuncaArquivoVazio ==
    /\ \A a \in arquivos : a[3] > 0
    /\ (pc = "fim" /\ cliente = "main" /\ rede # { }
          /\ todas_noticias = << >> /\ noticias = << >>) =>
          (arquivos = { } /\ erro = "" /\ avisos \cap NadaExtraido # { })

\* C12: every record an adapter emits, and every record of the dataset
\* executar_extracao returns, has a non-empty link.
C12_LinkNaoVazio ==
    /\ \A i \in DOMAIN todas_noticias : todas_noticias[i].link # << >>
    /\ \A i \in DOMAIN noticias : noticias[i].link # << >>
    /\ \A i \in DOMAIN df_final : df_final[i].link # << >>

\* the listing page fetched last
UltimaPagina == CHOOSE p \in buscadas : \A q \in buscadas : q <= p

\* the entry passes the topic filter of tentar_rss
EntradaAceita(entry) == _eh_checagem_fato_ou_fake(entry.title, entry.link)

\* C13: an article whose own page does not load is still emitted, with an
\* empty conteudo, by the scraping and by the RSS adapter: the records of a
\* listing page are those of all its accepted articles, the records of the
\* feed those of all its accepted entries, in order, and the pages after a
\* listing page that loaded are fetched.
C13_FalhaSecundaria ==
    /\ (pc \in { "paginas", "fim_paginas" } /\ buscadas # { }) =>
          LET aceitos  == SelectSeq(soup, ArtigoAceito)
              emitidos == por_pagina[UltimaPagina]
          IN  /\ Len(emitidos) = Len(aceitos)
              /\ \A k \in DOMAIN emitidos :
                    /\ emitidos[k].link = aceitos[k].href
                    /\ aceitos[k].detalhe = "falha" => emitidos[k].conteudo = ""
    /\ (pc = "fim_paginas" /\ falhas = { }) => buscadas = 1..num_pages
    /\ (pc = "fim_api" /\ "rss" \in rede) =>
          LET aceitas == SelectSeq(feed, EntradaAceita)
          IN  /\ Len(noticias) = Len(aceitas)
              /\ \A k \in DOMAIN noticias :
                    /\ noticias[k].link = aceitas[k].link
                    /\ aceitas[k].detalhe = "falha" => noticias[k].conteudo = ""

\* both adapters have emitted the record of an article whose own page did not
\* load, and the record of the article after it
C13_Testemunha ==
    /\ pc = "fim_api"
    /\ \E k \in DOMAIN todas_noticias :
          /\ todas_noticias[k].titulo = t_e_verdade
          /\ todas_noticias[k].conteudo = ""
          /\ k < Len(todas_noticias)
    /\ Len(feed) > 1
    /\ feed[1].detalhe = "falha"
    /\ Len(noticias) = Len(feed)
    /\ noticias[1].fonte = "RSS"
    /\ noticias[1].conteudo = ""

\* every row of the DataFrame has exactly these columns
TemColunas(df, colunas) == \A i \in DOMAIN df : DOMAIN df[i] = colunas

\* C14: when both datasets are non-empty and their columns differ, every
\* record of the combined dataset has exactly the columns the two have in
\* common; two datasets of the same columns combine without losing a column.
C14_ColunasComuns ==
    /\ (RetornouCombinado /\ Len(dfs) = 2 /\ Colunas(dfs[1]) # Colunas(dfs[2])) =>
          TemColunas(df_final, Colunas(dfs[1]) \cap Colunas(dfs[2]))
    /\ pc = "combinar" =>
          \A k \in DOMAIN dfs : TemColunas(Combinar(<<dfs[k], dfs[k]>>), Colunas(dfs[k]))

\* a record of the API/RSS dataset is in the combined dataset without its
\* 'fonte', a column the scraping dataset does not have
C14_Testemunha ==
    /\ RetornouCombinado
    /\ Len(dfs) = 2
    /\ "fonte" \in Colunas(dfs[2]) \ Colunas(dfs[1])
    /\ \E k \in DOMAIN df_final :
          /\ df_final[k].metodo_extracao = "api/rss"
          /\ "fonte" \notin DOMAIN df_final[k]

Classificacoes == { "FATO", "FAKE", "INDETERMINADO" }

\* C17: the classificacao of every record an adapter emits is FATO, FAKE or
\* INDETERMINADO, the records of API items that bring a 'classification' of
\* their own, of any text, included.
C17_ClassificacaoValida ==
    /\ \A i \in DOMAIN todas_noticias : todas_noticias[i].classificacao \in Classificacoes
    /\ \A i \in DOMAIN noticias : noticias[i].classificacao \in Classificacoes
    /\ \A i \in DOMAIN df_final : df_final[i].classificacao \in Classificacoes

\* the API adapter has emitted the record of an item whose 'classification'
\* is neither verdict
C17_Testemunha ==
    /\ pc = "fim_api"
    /\ \E i \in DOMAIN noticias :
          /\ noticias[i].fonte = "API"
          /\ payload[i].tem_classification
          /\ ~ItemTrazVeredito(payload[i])
          /\ noticias[i].classificacao = "INDETERMINADO"

\* the records that say where they come from all say the same
FonteUnica(df) ==
    \A i, j \in DOMAIN df :
        ("fonte" \in DOMAIN df[i] /\ "fonte" \in DOMAIN df[j]) => df[i].fonte = df[j].fonte

\* the feed is read, or an article of the feed fetched, in this step
LeFeed == \/ "rss" \in rede' /\ "rss" \notin rede
          \/ "conteudo" \in rede' /\ "conteudo" \notin rede

RssSoSemApi ==
    /\ "rss" \in rede => ("api" \in rede /\ payload = << >>)
    /\ "conteudo" \in rede => "rss" \in rede
    /\ (pc = "fim_api" /\ "rss" \notin rede) => noticias # << >>
    /\ FonteUnica(noticias)
    /\ FonteUnica(df_final)

\* C19: the feed is read only in a step taken after the API attempt has
\* finished with no record; when the API gave a record the feed is never
\* read and no article of the feed is fetched; the records of
\* FatoOuFakeAPIExtractor.executar_extracao are all of the API or all of
\* the feed.
C19_RssSoSemApi ==
    /\ []RssSoSemApi
    /\ [][LeFeed => (pc = "rss" /\ "api" \in rede /\ noticias = << >>)]_vars

\* the API answered without items, and the feed gave the records
C19_Testemunha ==
    /\ pc = "fim_api"
    /\ "api" \in rede
    /\ "conteudo" \in rede
    /\ payload = << >>
    /\ Len(noticias) > 1
    /\ \A i \in DOMAIN noticias : noticias[i].fonte = "RSS"

============================================================================
